---- MODULE Spec2Model ----
(***************************************************************************)
(* Model of the SST builder of components/kvengine (table/sstable/         *)
(* builder.rs).  Buffers are sequences of bytes (0..255); every put_*      *)
(* of the source appends the little-endian bytes it appends there.         *)
(***************************************************************************)
EXTENDS Integers, Sequences, FiniteSets, TLC

\* ------------------------------------------------------------------------
\* Bounds of the model.
\* ------------------------------------------------------------------------
\* Number of add calls per build (between construction/reset and finish).
MaxAdds == 4

\* ------------------------------------------------------------------------
\* Program constants (builder.rs:13-23, 238).
\* ------------------------------------------------------------------------
CRC32_CASTAGNOLI == 1
EXTRA_END == 255
EXTRA_FILTER == 1
EXTRA_FILTER_TYPE_BINARY_FUSE_8 == 1
NO_COMPRESSION == 0
TABLE_FORMAT == 1
\* MAGIC_NUMBER = 2940551257 exceeds TLC's 32-bit integers; the footer
\* holds it as the four bytes put_u32_le writes for it.
MAGIC_NUMBER == <<89, 64, 69, 175>>
META_HAS_OLD == 2
\* mem::size_of::<Footer>(): four u32, two u8, one u16, one u32.
FOOTER_SIZE == 24
PROP_KEY_SMALLEST == <<115, 109, 97, 108, 108, 101, 115, 116>>
PROP_KEY_BIGGEST == <<98, 105, 103, 103, 101, 115, 116>>

\* ------------------------------------------------------------------------
\* Byte helpers: BufMut::put_u16_le / put_u32_le / put_u64_le and
\* LittleEndian reads, with the integer widths of the source.
\* ------------------------------------------------------------------------
\* Every length, offset, version and hash of the model is below 2^31, so the
\* u32/u64/usize arithmetic of the source never wraps on them and a cast
\* "as u32" keeps the value; a cast "as u16" or "as u8" is the remainder.
U16 == 256 * 256

RECURSIVE LE(_, _)
LE(x, n) == IF n = 0 THEN <<>> ELSE <<x % 256>> \o LE(x \div 256, n - 1)

put_u16_le(x) == LE(x % U16, 2)
put_u32_le(x) == LE(x, 4)
put_u64_le(x) == LE(x, 8)

\* Byte at 0-based position i; 0 outside the buffer.
ByteAt(s, i) == IF i >= 0 /\ i < Len(s) THEN s[i + 1] ELSE 0

RECURSIVE read_le(_, _, _)
read_le(s, i, n) ==
    IF n = 0 THEN 0 ELSE ByteAt(s, i) + 256 * read_le(s, i + 1, n - 1)

\* The half-open 0-based range [from, to) of s, clamped to the buffer.
Slice(s, from, to) ==
    LET f == IF from < 0 THEN 0 ELSE from
        t == IF to > Len(s) THEN Len(s) ELSE to
    IN  IF f >= t THEN <<>> ELSE SubSeq(s, f + 1, t)

\* slice[..n] := bytes (LittleEndian::write_u32 into an existing buffer).
WriteAt(s, pos, bytes) ==
    [i \in 1..Len(s) |->
        IF i > pos /\ i <= pos + Len(bytes) THEN bytes[i - pos] ELSE s[i]]

\* crc32c::crc32c of the external crate: a deterministic function of the
\* bytes that fits a u32.  Only its dependence on every byte and on the
\* byte's position is modelled: a position-weighted sum, split in halves.
RECURSIVE crc32c_range(_, _, _)
crc32c_range(s, lo, hi) ==
    IF lo > hi THEN 0
    ELSE IF lo = hi THEN ((lo * 7 + 1) * (s[lo] + 1)) % (U16 * 256)
    ELSE LET mid == (lo + hi) \div 2
         IN  (crc32c_range(s, lo, mid) + crc32c_range(s, mid + 1, hi)) % (U16 * 256)
crc32c(s) == crc32c_range(s, 1, Len(s))

\* farmhash::fingerprint64 of the external crate: a deterministic function
\* of the key bytes (injective on the keys of the model).
RECURSIVE fingerprint64(_)
fingerprint64(key) ==
    IF key = <<>> THEN 1
    ELSE (Head(key) + 1) + 257 * fingerprint64(Tail(key))

\* ------------------------------------------------------------------------
\* Value (table.rs): meta, version, user_meta, value; its encoded form is
\* meta, user_meta_len, version (u64 LE), user_meta, value.
\* ------------------------------------------------------------------------
Value(meta, version, user_meta, value) ==
    [meta |-> meta, version |-> version, user_meta |-> user_meta, value |-> value]

encoded_size(val) == Len(val.user_meta) + Len(val.value) + 10

encode(val) ==
    <<val.meta, Len(val.user_meta)>> \o put_u64_le(val.version)
        \o val.user_meta \o val.value

decode(bin) ==
    LET uml == ByteAt(bin, 1)
    IN  [meta |-> ByteAt(bin, 0),
         version |-> read_le(bin, 2, 8),
         user_meta |-> Slice(bin, 10, 10 + uml),
         value |-> Slice(bin, 10 + uml, Len(bin))]

\* ------------------------------------------------------------------------
\* EntrySlice (builder.rs:42-98).
\* ------------------------------------------------------------------------
EntrySlice_new == [buf |-> <<>>, end_offs |-> <<>>]

append(es, data) ==
    LET nb == es.buf \o data
    IN  [buf |-> nb, end_offs |-> Append(es.end_offs, Len(nb))]

append_value(es, val) ==
    LET nb == es.buf \o encode(val)
    IN  [buf |-> nb, end_offs |-> Append(es.end_offs, Len(nb))]

length(es) == Len(es.end_offs)

get_entry(es, i) ==
    LET start_off == IF i > 0 THEN es.end_offs[i] ELSE 0
    IN  Slice(es.buf, start_off, es.end_offs[i + 1])

get_last(es) == get_entry(es, length(es) - 1)

EntrySlice_reset(es) == [buf |-> <<>>, end_offs |-> <<>>]

\* ------------------------------------------------------------------------
\* BlockBuffer (builder.rs:284-301).
\* ------------------------------------------------------------------------
BlockBuffer_default ==
    [tmp_keys |-> EntrySlice_new, tmp_vals |-> EntrySlice_new,
     old_vers |-> <<>>, entry_sizes |-> <<>>, size |-> 0]

BlockBuffer_reset(block) ==
    [tmp_keys |-> EntrySlice_reset(block.tmp_keys),
     tmp_vals |-> EntrySlice_reset(block.tmp_vals),
     old_vers |-> <<>>, entry_sizes |-> <<>>, size |-> 0]

\* ------------------------------------------------------------------------
\* BlockAddress (builder.rs:468-483).
\* ------------------------------------------------------------------------
BlockAddress_new(fid, offset) ==
    [origin_fid |-> fid, origin_off |-> offset, curr_off |-> offset]

\* ------------------------------------------------------------------------
\* key_diff_idx (builder.rs:491-500).
\* ------------------------------------------------------------------------
RECURSIVE key_diff_from(_, _, _)
key_diff_from(k1, k2, i) ==
    IF i < Len(k1) /\ i < Len(k2) /\ k1[i + 1] = k2[i + 1]
    THEN key_diff_from(k1, k2, i + 1)
    ELSE i

key_diff_idx(k1, k2) == key_diff_from(k1, k2, 0)

\* ------------------------------------------------------------------------
\* BlockBuilder (builder.rs:303-466).
\* ------------------------------------------------------------------------
BlockBuilder_default ==
    [buf |-> <<>>, block |-> BlockBuffer_default,
     block_keys |-> EntrySlice_new, block_addrs |-> <<>>]

\* same_last_key that never recognises the last staged key.
same_last_key_never(self, key) == FALSE

same_last_key(self, key) ==
    IF length(self.block.tmp_keys) > 0
    THEN get_last(self.block.tmp_keys) = key
    ELSE FALSE

set_last_entry_old_ver_if_zero(self, ver) ==
    LET last_old_ver_idx == Len(self.block.old_vers)
        last_entry_size_idx == Len(self.block.entry_sizes)
    IN  IF self.block.old_vers[last_old_ver_idx] = 0
        THEN [self EXCEPT
                !.block.old_vers[last_old_ver_idx] = ver,
                !.block.entry_sizes[last_entry_size_idx] = @ + 8]
        ELSE self

add_entry(self, key, val) ==
    LET entry_size == 2 + Len(key) + encoded_size(val)
    IN  [self EXCEPT
            !.block.tmp_keys = append(@, key),
            !.block.tmp_vals = append_value(@, val),
            !.block.old_vers = Append(@, 0),
            !.block.entry_sizes = Append(@, entry_size),
            !.block.size = @ + entry_size]

\* meta |= META_HAS_OLD and meta &= !META_HAS_OLD on a u8.
HasOldBit(meta) == (meta \div META_HAS_OLD) % 2 = 1
SetHasOld(meta) == IF HasOldBit(meta) THEN meta ELSE meta + META_HAS_OLD
ClearHasOld(meta) == IF HasOldBit(meta) THEN meta - META_HAS_OLD ELSE meta

build_entry(self, i, common_prefix_len) ==
    LET key == get_entry(self.block.tmp_keys, i)
        key_suffix == Slice(key, common_prefix_len, Len(key))
        val_bin == get_entry(self.block.tmp_vals, i)
        v == decode(val_bin)
        old_ver == self.block.old_vers[i + 1]
        meta == IF old_ver # 0 THEN SetHasOld(v.meta) ELSE ClearHasOld(v.meta)
    IN  [self EXCEPT !.buf =
            @ \o put_u16_le(Len(key_suffix)) \o key_suffix
              \o <<meta>> \o put_u64_le(v.version)
              \o (IF old_ver # 0 THEN put_u64_le(old_ver) ELSE <<>>)
              \o <<Len(v.user_meta) % 256>> \o v.user_meta \o v.value]

\* build_entry, line 370: the slice &key[common_prefix_len..] panics when
\* the key is shorter than the common prefix.
build_entry_panics(self, i, common_prefix_len) ==
    common_prefix_len > Len(get_entry(self.block.tmp_keys, i))

\* get_block_common_prefix_len that takes the whole first key for the
\* common prefix.
get_block_common_prefix_len_first_key(self) ==
    Len(get_entry(self.block.tmp_keys, 0))

\* get_block_common_prefix_len that compares the first key with the key
\* next to it instead of with the last key.
get_block_common_prefix_len_first_two(self) ==
    LET n == length(self.block.tmp_keys)
    IN  key_diff_idx(get_entry(self.block.tmp_keys, 0),
                     get_entry(self.block.tmp_keys, IF n > 1 THEN 1 ELSE 0))

get_block_common_prefix_len(self) ==
    key_diff_idx(get_entry(self.block.tmp_keys, 0), get_last(self.block.tmp_keys))

get_index_common_prefix_len(self) ==
    key_diff_idx(get_entry(self.block_keys, 0), get_last(self.block_keys))

\* The first loop of finish_block: the stored entry offsets, as bytes.
RECURSIVE entry_offsets(_, _, _, _)
entry_offsets(entry_sizes, common_prefix_len, i, offset) ==
    IF i >= Len(entry_sizes) THEN <<>>
    ELSE put_u32_le(offset)
           \o entry_offsets(entry_sizes, common_prefix_len, i + 1,
                            offset + entry_sizes[i + 1] - common_prefix_len)

\* The second loop of finish_block.
RECURSIVE build_entries(_, _, _, _)
build_entries(self, i, num_entries, common_prefix_len) ==
    IF i >= num_entries THEN self
    ELSE build_entries(build_entry(self, i, common_prefix_len),
                       i + 1, num_entries, common_prefix_len)

finish_block(self, fid, checksum_tp) ==
    LET first_key == get_entry(self.block.tmp_keys, 0)
        start == Len(self.buf)
        begin_off == start + 4
        num_entries == length(self.block.tmp_keys)
        common_prefix_len == get_block_common_prefix_len(self)
        common_prefix == Slice(first_key, 0, common_prefix_len)
        s1 == [self EXCEPT
                 !.block_keys = append(@, first_key),
                 !.block_addrs = Append(@, BlockAddress_new(fid, start)),
                 !.buf = @ \o put_u32_le(0) \o put_u32_le(num_entries)
                           \o entry_offsets(self.block.entry_sizes,
                                            common_prefix_len, 0, 0)
                           \o put_u16_le(common_prefix_len) \o common_prefix]
        s2 == build_entries(s1, 0, num_entries, common_prefix_len)
        checksum == IF checksum_tp = CRC32_CASTAGNOLI
                    THEN crc32c(Slice(s2.buf, begin_off, Len(s2.buf)))
                    ELSE 0
    IN  [s2 EXCEPT
            !.buf = WriteAt(@, begin_off - 4, put_u32_le(checksum)),
            !.block = BlockBuffer_reset(@)]

\* finish_block panics iff one of its build_entry calls does.  (The other
\* partial operations of finish_block cannot fail on keys of fewer than
\* 12 bytes: first_key[..common_prefix_len] is within the first key, and
\* entry_sizes[i] - common_prefix_len, line 350, does not underflow.)
finish_block_panics(self) ==
    \E i \in 0..(length(self.block.tmp_keys) - 1) :
        build_entry_panics(self, i, get_block_common_prefix_len(self))

reset_all(self) ==
    [buf |-> <<>>, block |-> BlockBuffer_reset(self.block),
     block_keys |-> EntrySlice_reset(self.block_keys), block_addrs |-> <<>>]

\* bincode::serialize of the BinaryFuse8 filter (external crates): the
\* number of fingerprints and one 8-bit fingerprint per key hash.
RECURSIVE filter_bytes(_)
filter_bytes(key_hashes) ==
    IF key_hashes = <<>> THEN <<>>
    ELSE <<Head(key_hashes) % 256>> \o filter_bytes(Tail(key_hashes))

\* build_filter that emits a filter record without content when the
\* construction fails.
build_filter_record_on_failure(self, key_hashes, filter_ok) ==
    LET bin == IF filter_ok
               THEN <<Len(key_hashes) % 256>> \o filter_bytes(key_hashes)
               ELSE <<>>
    IN  [self EXCEPT !.buf =
           @ \o <<EXTRA_FILTER, EXTRA_FILTER_TYPE_BINARY_FUSE_8>>
             \o put_u32_le(Len(bin)) \o bin]

\* filter_ok is the outcome of BinaryFuse8::try_from(key_hashes).
build_filter(self, key_hashes, filter_ok) ==
    IF filter_ok
    THEN LET bin == <<Len(key_hashes) % 256>> \o filter_bytes(key_hashes)
         IN  [self EXCEPT !.buf =
                @ \o <<EXTRA_FILTER, EXTRA_FILTER_TYPE_BINARY_FUSE_8>>
                  \o put_u32_le(Len(bin)) \o bin]
    ELSE self

\* The loops of build_index over the blocks.
RECURSIVE index_key_offsets(_, _, _, _)
index_key_offsets(block_keys, common_prefix_len, i, key_offset) ==
    IF i >= length(block_keys) THEN <<>>
    ELSE put_u32_le(key_offset)
           \o index_key_offsets(block_keys, common_prefix_len, i + 1,
                key_offset + Len(get_entry(block_keys, i)) - common_prefix_len)

\* index_block_addrs that leaves base_off out of curr_off.
RECURSIVE index_block_addrs_local(_, _)
index_block_addrs_local(block_addrs, base_off) ==
    IF block_addrs = <<>> THEN <<>>
    ELSE LET block_addr == Head(block_addrs)
         IN  put_u64_le(block_addr.origin_fid)
               \o put_u32_le(block_addr.origin_off + base_off)
               \o put_u32_le(block_addr.curr_off)
               \o index_block_addrs_local(Tail(block_addrs), base_off)

RECURSIVE index_block_addrs(_, _)
index_block_addrs(block_addrs, base_off) ==
    IF block_addrs = <<>> THEN <<>>
    ELSE LET block_addr == Head(block_addrs)
         IN  put_u64_le(block_addr.origin_fid)
               \o put_u32_le(block_addr.origin_off + base_off)
               \o put_u32_le(block_addr.curr_off + base_off)
               \o index_block_addrs(Tail(block_addrs), base_off)

RECURSIVE index_key_suffixes(_, _, _)
index_key_suffixes(block_keys, common_prefix_len, i) ==
    IF i >= length(block_keys) THEN <<>>
    ELSE LET block_key == get_entry(block_keys, i)
         IN  Slice(block_key, common_prefix_len, Len(block_key))
               \o index_key_suffixes(block_keys, common_prefix_len, i + 1)

\* build_index panics when a block key is shorter than the common prefix
\* of the first and the last block key: block_key.len() - common_prefix_len
\* (line 426) overflows, which panics where overflow checks are on, and the
\* slice &block_key[common_prefix_len..] (line 443) panics in every build.
build_index_panics(self) ==
    IF Len(self.block_addrs) > 0
    THEN \E i \in 0..(length(self.block_keys) - 1) :
            get_index_common_prefix_len(self) > Len(get_entry(self.block_keys, i))
    ELSE FALSE

build_index(self, base_off, checksum_tp, key_hashes, filter_ok) ==
    LET num_blocks == Len(self.block_addrs)
        common_prefix_len ==
            IF num_blocks > 0 THEN get_index_common_prefix_len(self) ELSE 0
        common_prefix ==
            IF common_prefix_len > 0
            THEN Slice(get_entry(self.block_keys, 0), 0, common_prefix_len)
            ELSE <<>>
        block_keys_len == Len(self.block_keys.buf) - num_blocks * common_prefix_len
        s1 == [self EXCEPT !.buf =
                 put_u32_le(0) \o put_u32_le(num_blocks)
                   \o index_key_offsets(self.block_keys, common_prefix_len, 0, 0)
                   \o index_block_addrs(self.block_addrs, base_off)
                   \o put_u16_le(common_prefix_len) \o common_prefix
                   \o put_u32_le(block_keys_len)
                   \o index_key_suffixes(self.block_keys, common_prefix_len, 0)]
        s2 == IF Len(key_hashes) > 0
              THEN build_filter(s1, key_hashes, filter_ok)
              ELSE s1
        s3 == [s2 EXCEPT !.buf = @ \o <<EXTRA_END>>]
    IN  IF checksum_tp = CRC32_CASTAGNOLI
        THEN [s3 EXCEPT !.buf =
                WriteAt(@, 0, put_u32_le(crc32c(Slice(s3.buf, 4, Len(s3.buf)))))]
        ELSE s3

\* ------------------------------------------------------------------------
\* Footer (builder.rs:240-282).  marshal copies the struct's bytes; the
\* fields are laid out in declaration order, unmarshal reads them back.
\* ------------------------------------------------------------------------
Footer_default ==
    [old_data_offset |-> 0, index_offset |-> 0, old_index_offset |-> 0,
     properties_offset |-> 0, compression_type |-> 0, checksum_type |-> 0,
     table_format_version |-> 0, magic |-> <<0, 0, 0, 0>>]

data_len(footer) == footer.old_data_offset
old_data_len(footer) == footer.index_offset - footer.old_data_offset
index_len(footer) == footer.old_index_offset - footer.index_offset
old_index_len(footer) == footer.properties_offset - footer.old_index_offset
properties_len(footer, table_size) ==
    table_size - footer.properties_offset - FOOTER_SIZE

marshal(footer) ==
    put_u32_le(footer.old_data_offset) \o put_u32_le(footer.index_offset)
      \o put_u32_le(footer.old_index_offset) \o put_u32_le(footer.properties_offset)
      \o <<footer.compression_type, footer.checksum_type>>
      \o put_u16_le(footer.table_format_version) \o footer.magic

unmarshal(data) ==
    [old_data_offset |-> read_le(data, 0, 4),
     index_offset |-> read_le(data, 4, 4),
     old_index_offset |-> read_le(data, 8, 4),
     properties_offset |-> read_le(data, 12, 4),
     compression_type |-> ByteAt(data, 16),
     checksum_type |-> ByteAt(data, 17),
     table_format_version |-> read_le(data, 18, 2),
     magic |-> Slice(data, 20, 24)]

\* ------------------------------------------------------------------------
\* Builder (builder.rs:100-236).  bloom_fpr is stored and never read.
\* ------------------------------------------------------------------------
Builder_new(fid, opt) ==
    [fid |-> fid,
     block_builder |-> BlockBuilder_default,
     old_builder |-> BlockBuilder_default,
     block_size |-> opt.block_size,
     checksum_tp |-> CRC32_CASTAGNOLI,
     key_hashes |-> <<>>,
     smallest |-> <<>>,
     biggest |-> <<>>]

\* reset that leaves key_hashes as they are.
reset_keeping_key_hashes(self, fid) ==
    [self EXCEPT
        !.fid = fid,
        !.block_builder = reset_all(@),
        !.old_builder = reset_all(@),
        !.smallest = <<>>,
        !.biggest = <<>>]

reset(self, fid) ==
    [self EXCEPT
        !.fid = fid,
        !.block_builder = reset_all(@),
        !.old_builder = reset_all(@),
        !.key_hashes = <<>>,
        !.smallest = <<>>,
        !.biggest = <<>>]

add_property(buf, key, val) ==
    buf \o put_u16_le(Len(key)) \o key \o put_u32_le(Len(val)) \o val

\* add that keeps the first duplicate of a key out of the old-versions
\* builder (its version only goes to the old_vers slot).
add_first_duplicate_slot_only(self, key, val) ==
    IF same_last_key(self.block_builder, key)
    THEN IF self.block_builder.block.old_vers[Len(self.block_builder.block.old_vers)] = 0
         THEN [self EXCEPT
                 !.block_builder = set_last_entry_old_ver_if_zero(@, val.version)]
         ELSE [self EXCEPT !.old_builder = add_entry(@, key, val)]
    ELSE LET s1 == IF self.block_builder.block.size > self.block_size
                   THEN [self EXCEPT !.block_builder =
                            finish_block(@, self.fid, self.checksum_tp)]
                   ELSE self
             s2 == IF s1.old_builder.block.size > s1.block_size
                   THEN [s1 EXCEPT !.old_builder =
                            finish_block(@, s1.fid, s1.checksum_tp)]
                   ELSE s1
         IN  [s2 EXCEPT
                !.block_builder = add_entry(@, key, val),
                !.key_hashes = Append(@, fingerprint64(key)),
                !.smallest = IF Len(@) = 0 THEN @ \o key ELSE @]

\* add that applies the block-size test to the old-versions builder on
\* duplicates too.
add_cutting_old_on_duplicates(self, key, val) ==
    IF same_last_key(self.block_builder, key)
    THEN LET s1 == IF self.old_builder.block.size > self.block_size
                   THEN [self EXCEPT !.old_builder =
                            finish_block(@, self.fid, self.checksum_tp)]
                   ELSE self
         IN  [s1 EXCEPT
                !.block_builder = set_last_entry_old_ver_if_zero(@, val.version),
                !.old_builder = add_entry(@, key, val)]
    ELSE LET s1 == IF self.block_builder.block.size > self.block_size
                   THEN [self EXCEPT !.block_builder =
                            finish_block(@, self.fid, self.checksum_tp)]
                   ELSE self
             s2 == IF s1.old_builder.block.size > s1.block_size
                   THEN [s1 EXCEPT !.old_builder =
                            finish_block(@, s1.fid, s1.checksum_tp)]
                   ELSE s1
         IN  [s2 EXCEPT
                !.block_builder = add_entry(@, key, val),
                !.key_hashes = Append(@, fingerprint64(key)),
                !.smallest = IF Len(@) = 0 THEN @ \o key ELSE @]

\* add that tests the block sizes before it tests for a duplicate.
add_cutting_before_duplicate_test(self, key, val) ==
    LET s1 == IF self.block_builder.block.size > self.block_size
              THEN [self EXCEPT !.block_builder =
                       finish_block(@, self.fid, self.checksum_tp)]
              ELSE self
        s2 == IF s1.old_builder.block.size > s1.block_size
              THEN [s1 EXCEPT !.old_builder =
                       finish_block(@, s1.fid, s1.checksum_tp)]
              ELSE s1
    IN  IF same_last_key(s2.block_builder, key)
        THEN [s2 EXCEPT
                !.block_builder = set_last_entry_old_ver_if_zero(@, val.version),
                !.old_builder = add_entry(@, key, val)]
        ELSE [s2 EXCEPT
                !.block_builder = add_entry(@, key, val),
                !.key_hashes = Append(@, fingerprint64(key)),
                !.smallest = IF Len(@) = 0 THEN @ \o key ELSE @]

\* add that pushes a fingerprint for every record, duplicates included.
add_hashing_every_record(self, key, val) ==
    IF same_last_key(self.block_builder, key)
    THEN [self EXCEPT
            !.block_builder = set_last_entry_old_ver_if_zero(@, val.version),
            !.old_builder = add_entry(@, key, val),
            !.key_hashes = Append(@, fingerprint64(key))]
    ELSE LET s1 == IF self.block_builder.block.size > self.block_size
                   THEN [self EXCEPT !.block_builder =
                            finish_block(@, self.fid, self.checksum_tp)]
                   ELSE self
             s2 == IF s1.old_builder.block.size > s1.block_size
                   THEN [s1 EXCEPT !.old_builder =
                            finish_block(@, s1.fid, s1.checksum_tp)]
                   ELSE s1
         IN  [s2 EXCEPT
                !.block_builder = add_entry(@, key, val),
                !.key_hashes = Append(@, fingerprint64(key)),
                !.smallest = IF Len(@) = 0 THEN @ \o key ELSE @]

add(self, key, val) ==
    IF same_last_key(self.block_builder, key)
    THEN [self EXCEPT
            !.block_builder = set_last_entry_old_ver_if_zero(@, val.version),
            !.old_builder = add_entry(@, key, val)]
    ELSE LET s1 == IF self.block_builder.block.size > self.block_size
                   THEN [self EXCEPT !.block_builder =
                            finish_block(@, self.fid, self.checksum_tp)]
                   ELSE self
             s2 == IF s1.old_builder.block.size > s1.block_size
                   THEN [s1 EXCEPT !.old_builder =
                            finish_block(@, s1.fid, s1.checksum_tp)]
                   ELSE s1
         IN  [s2 EXCEPT
                !.block_builder = add_entry(@, key, val),
                !.key_hashes = Append(@, fingerprint64(key)),
                !.smallest = IF Len(@) = 0 THEN @ \o key ELSE @]

\* add panics iff a finish_block it calls does.
add_panics(self, key, val) ==
    IF same_last_key(self.block_builder, key) THEN FALSE
    ELSE \/ /\ self.block_builder.block.size > self.block_size
            /\ finish_block_panics(self.block_builder)
         \/ /\ self.old_builder.block.size > self.block_size
            /\ finish_block_panics(self.old_builder)

build_properties(self, buf) ==
    LET origin_len == Len(buf)
        b1 == add_property(
                add_property(buf \o put_u32_le(0), PROP_KEY_SMALLEST, self.smallest),
                PROP_KEY_BIGGEST, self.biggest)
    IN  IF self.checksum_tp = CRC32_CASTAGNOLI
        THEN WriteAt(b1, origin_len,
                     put_u32_le(crc32c(Slice(b1, origin_len + 4, Len(b1)))))
        ELSE b1

is_empty(self) == Len(self.smallest) = 0

\* finish_open_blocks that takes biggest from the first staged key of the
\* open block instead of the last.
finish_open_blocks_first_key(self) ==
    LET s1 == IF self.block_builder.block.size > 0
              THEN [self EXCEPT
                      !.biggest = @ \o get_entry(self.block_builder.block.tmp_keys, 0),
                      !.block_builder = finish_block(@, self.fid, self.checksum_tp)]
              ELSE self
    IN  IF s1.old_builder.block.size > 0
        THEN [s1 EXCEPT !.old_builder = finish_block(@, s1.fid, s1.checksum_tp)]
        ELSE s1

\* finish, lines 172-179: close the open blocks of both builders.
finish_open_blocks(self) ==
    LET s1 == IF self.block_builder.block.size > 0
              THEN [self EXCEPT
                      !.biggest = @ \o get_last(self.block_builder.block.tmp_keys),
                      !.block_builder = finish_block(@, self.fid, self.checksum_tp)]
              ELSE self
    IN  IF s1.old_builder.block.size > 0
        THEN [s1 EXCEPT !.old_builder = finish_block(@, s1.fid, s1.checksum_tp)]
        ELSE s1

\* finish_assertion that takes a builder for empty by its smallest key.
finish_assertion_by_smallest(self) == Len(self.smallest) > 0

\* finish, lines 172-179, panics iff a finish_block it calls does.
finish_open_blocks_panics(self) ==
    \/ /\ self.block_builder.block.size > 0
       /\ finish_block_panics(self.block_builder)
    \/ /\ self.old_builder.block.size > 0
       /\ finish_block_panics(self.old_builder)

\* finish, line 180.
finish_assertion(self) == length(self.block_builder.block_keys) > 0

\* finish_footer that starts the index at the size of the old-versions data
\* section instead of at its end.
finish_footer_not_cumulative(data_size, old_data_size, index_size, old_index_size, checksum_tp) ==
    LET old_data_offset == data_size
        index_offset == old_data_size
        old_index_offset == index_offset + index_size
        properties_offset == old_index_offset + old_index_size
    IN  [Footer_default EXCEPT
           !.old_data_offset = old_data_offset,
           !.index_offset = index_offset,
           !.old_index_offset = old_index_offset,
           !.properties_offset = properties_offset,
           !.compression_type = NO_COMPRESSION,
           !.checksum_type = checksum_tp,
           !.table_format_version = TABLE_FORMAT,
           !.magic = MAGIC_NUMBER]

\* finish, lines 197-205: the footer of the four section sizes.
finish_footer(data_size, old_data_size, index_size, old_index_size, checksum_tp) ==
    LET old_data_offset == data_size
        index_offset == old_data_offset + old_data_size
        old_index_offset == index_offset + index_size
        properties_offset == old_index_offset + old_index_size
    IN  [Footer_default EXCEPT
           !.old_data_offset = old_data_offset,
           !.index_offset = index_offset,
           !.old_index_offset = old_index_offset,
           !.properties_offset = properties_offset,
           !.compression_type = NO_COMPRESSION,
           !.checksum_type = checksum_tp,
           !.table_format_version = TABLE_FORMAT,
           !.magic = MAGIC_NUMBER]

\* finish_sections that appends the current index before the old-versions
\* data section.
finish_sections_index_first(s2, base_off, data_buf, filter_ok) ==
    LET d1 == data_buf \o s2.block_builder.buf
        data_section_size == Len(s2.block_builder.buf)
        s3 == [s2 EXCEPT !.block_builder =
                 build_index(@, base_off, s2.checksum_tp, s2.key_hashes, filter_ok)]
        d2 == d1 \o s3.block_builder.buf
        old_data_section_size == Len(s2.old_builder.buf)
        d3 == d2 \o s2.old_builder.buf
        index_section_size == Len(s3.block_builder.buf)
        s4 == [s3 EXCEPT !.old_builder =
                 build_index(@, base_off + data_section_size,
                             s3.checksum_tp, <<>>, filter_ok)]
        d4 == d3 \o s4.old_builder.buf
        old_index_section_size == Len(s4.old_builder.buf)
        d5 == build_properties(s4, d4)
        footer == finish_footer(data_section_size, old_data_section_size,
                                index_section_size, old_index_section_size,
                                s4.checksum_tp)
    IN  [self |-> s4,
         data_buf |-> d5 \o marshal(footer),
         result |-> [id |-> s4.fid, smallest |-> s4.smallest, biggest |-> s4.biggest],
         footer |-> footer,
         data |-> s2.block_builder.buf,
         old_data |-> s2.old_builder.buf,
         index |-> s3.block_builder.buf,
         old_index |-> s4.old_builder.buf,
         properties |-> Slice(d5, Len(d4), Len(d5))]

\* finish, lines 181-211, for a builder whose open blocks are closed (s2):
\* the builder, the caller's buffer and the BuildResult it leaves, and the
\* footer and the buffers it appended on the way.
finish_sections(s2, base_off, data_buf, filter_ok) ==
    LET d1 == data_buf \o s2.block_builder.buf
        data_section_size == Len(s2.block_builder.buf)
        d2 == d1 \o s2.old_builder.buf
        old_data_section_size == Len(s2.old_builder.buf)
        s3 == [s2 EXCEPT !.block_builder =
                 build_index(@, base_off, s2.checksum_tp, s2.key_hashes, filter_ok)]
        d3 == d2 \o s3.block_builder.buf
        index_section_size == Len(s3.block_builder.buf)
        s4 == [s3 EXCEPT !.old_builder =
                 build_index(@, base_off + data_section_size,
                             s3.checksum_tp, <<>>, filter_ok)]
        d4 == d3 \o s4.old_builder.buf
        old_index_section_size == Len(s4.old_builder.buf)
        d5 == build_properties(s4, d4)
        footer == finish_footer(data_section_size, old_data_section_size,
                                index_section_size, old_index_section_size,
                                s4.checksum_tp)
    IN  [self |-> s4,
         data_buf |-> d5 \o marshal(footer),
         result |-> [id |-> s4.fid, smallest |-> s4.smallest, biggest |-> s4.biggest],
         footer |-> footer,
         data |-> s2.block_builder.buf,
         old_data |-> s2.old_builder.buf,
         index |-> s3.block_builder.buf,
         old_index |-> s4.old_builder.buf,
         properties |-> Slice(d5, Len(d4), Len(d5))]

finish(self, base_off, data_buf, filter_ok) ==
    finish_sections(finish_open_blocks(self), base_off, data_buf, filter_ok)

\* ------------------------------------------------------------------------
\* The hybrid engine (hybrid_engine/src/engine.rs): a disk engine and a
\* region cache engine behind one KvEngine.  Only HybridEngine itself is
\* part of the sources at hand; the disk engine, the region cache engine and
\* HybridEngineSnapshot are modelled from what test_engine does with them.
\* ------------------------------------------------------------------------
MaxSeq == 2

None == [some |-> FALSE]
Some(v) == [some |-> TRUE, value |-> v]

\* The ranges a caller can name and the timestamps of test_engine.
Ranges == {"k00_k10", "k20_k30"}
ReadTs == {5, 10, 15}
SafeTs == {10}

\* SnapshotContext { read_ts, range: Option<CacheRange> }, and no context.
Contexts ==
    {None} \cup
    {Some([read_ts |-> ts, range |-> r]) :
        ts \in ReadTs, r \in {None} \cup {Some(x) : x \in Ranges}}

\* The disk engine: all that snapshot() uses of it is its sequence number,
\* which every write advances.
new_engine == [seq |-> 0]
disk_engine_write(disk) == [seq |-> disk.seq + 1]
disk_engine_snapshot(disk, ctx) == [seq |-> disk.seq]
sequence_number(disk_snap) == disk_snap.seq

\* The region cache engine: per range, whether it is cached, whether it is
\* readable and its safe_ts.
RangeMeta_default == [cached |-> FALSE, can_read |-> FALSE, safe_ts |-> 0]
RangeCacheMemoryEngine_new == [r \in Ranges |-> RangeMeta_default]
new_range(cache, range) ==
    [cache EXCEPT ![range] = [cached |-> TRUE, can_read |-> FALSE, safe_ts |-> 0]]
set_range_readable(cache, range, readable) ==
    [cache EXCEPT ![range].can_read = readable]
set_safe_ts(cache, range, safe_ts) ==
    [cache EXCEPT ![range].safe_ts = safe_ts]

\* RangeCacheEngine::snapshot(range, read_ts, seq_num): test_engine gets a
\* snapshot of a readable range at a read_ts above its safe_ts and none of
\* an unreadable range or at a read_ts below the safe_ts; at a read_ts equal
\* to the safe_ts it shows neither, and at_safe_ts is the answer there.
region_cache_engine_snapshot(cache, range, read_ts, seq_num, at_safe_ts) ==
    LET meta == cache[range] IN
    IF /\ meta.cached
       /\ meta.can_read
       /\ \/ read_ts > meta.safe_ts
          \/ read_ts = meta.safe_ts /\ at_safe_ts
    THEN Some([range |-> range, read_ts |-> read_ts, seq_num |-> seq_num])
    ELSE None

HybridEngineSnapshot_new(disk_snap, region_cache_snap) ==
    [disk_snap |-> disk_snap, region_cache_snap |-> region_cache_snap]
region_cache_snapshot_available(s) == s.region_cache_snap.some

HybridEngine_new(disk_engine, region_cache_engine) ==
    [disk_engine |-> disk_engine, region_cache_engine |-> region_cache_engine]

\* HybridEngine::snapshot, first statement: the disk snapshot.
snapshot_disk_snap(self, ctx) == disk_engine_snapshot(self.disk_engine, ctx)

\* ctx.range.unwrap() of a context without a range.
snapshot_unwrap_panics(ctx) == ctx.some /\ ~ctx.value.range.some

\* A variant of snapshot_request that hands the region cache engine the
\* sequence number the disk engine has at that moment.
snapshot_request_latest_sequence(self, ctx, disk_snap) ==
    IF ctx.some
    THEN Some([range |-> ctx.value.range.value,
               read_ts |-> ctx.value.read_ts,
               seq_num |-> self.disk_engine.seq])
    ELSE None

\* HybridEngine::snapshot, second statement: what it asks of the region
\* cache engine, if anything.
snapshot_request(self, ctx, disk_snap) ==
    IF ctx.some
    THEN Some([range |-> ctx.value.range.value,
               read_ts |-> ctx.value.read_ts,
               seq_num |-> sequence_number(disk_snap)])
    ELSE None

\* The answer of the region cache engine to that request.
snapshot_region_cache_snap(self, request, at_safe_ts) ==
    IF request.some
    THEN region_cache_engine_snapshot(self.region_cache_engine,
             request.value.range, request.value.read_ts,
             request.value.seq_num, at_safe_ts)
    ELSE None

\* The engine test_engine builds, before any range is cached.
NewHybridEngine == HybridEngine_new(new_engine, RangeCacheMemoryEngine_new)

\* No snapshot call made yet.
NoSnapshotCall ==
    [pc |-> "idle", ctx |-> None, request |-> None, seen |-> RangeMeta_default,
     snapshot |-> HybridEngineSnapshot_new(new_engine, None)]

\* ------------------------------------------------------------------------
\* Inputs of the model.
\* ------------------------------------------------------------------------
Keys == {<<>>, <<1>>, <<1, 1>>, <<1, 2>>}
\* Three records: one without the META_HAS_OLD bit, one with only that bit
\* and one with that bit and another; versions 0, 1 and 2; user_meta and
\* value empty or not, so that the encoded sizes differ.
Values ==
    {Value(1, 1, <<>>, <<9>>),
     Value(META_HAS_OLD, 2, <<5>>, <<8>>),
     Value(META_HAS_OLD + 1, 0, <<>>, <<>>)}
Fids == {1, 2}
\* TableBuilderOptions of the model: a block is cut once it holds more than
\* block_size bytes, which one or two entries of the model do.
Options == {[block_size |-> 14]}
\* The arguments of finish: base_off and the caller's buffer.
FinishArgs == {[base_off |-> 0, data_buf |-> <<>>],
               [base_off |-> 3, data_buf |-> <<170, 187, 204>>]}

\* Byte-wise (lexicographic) order of keys.
RECURSIVE KeyLeq(_, _)
KeyLeq(a, b) ==
    IF a = <<>> THEN TRUE
    ELSE IF b = <<>> THEN FALSE
    ELSE IF Head(a) # Head(b) THEN Head(a) < Head(b)
    ELSE KeyLeq(Tail(a), Tail(b))

\* ------------------------------------------------------------------------
\* State.
\*   builder   the Builder
\*   pc        "building" until finish is called, then "finished", or
\*             "panicked" when the assertion of finish failed
\*   data_buf  the caller's buffer after the finish call of this build
\*   result    the BuildResult of that call
\*   call      the arguments of that call, the footer it built and the
\*             buffers it appended
\*   added     the records added since construction or the last reset
\*   blocks    per builder, the blocks finished since then: where each
\*             starts in the builder's buf, its bytes, the entries that
\*             were staged when it was finished and where build_entry
\*             wrote each of them
\*   reused    history variable of SpecReuse: whether ResetTracked was
\*             taken since construction (the other specifications do not
\*             record their resets and leave it FALSE)
\*   engine    the HybridEngine: its disk engine and its region cache
\*             engine (constant in the specifications of the builder)
\*   snapshot_call  the progress of a HybridEngine::snapshot call, its
\*             argument and what it obtained
\* ------------------------------------------------------------------------
VARIABLES builder, pc, data_buf, result, call, added, blocks, reused, engine, snapshot_call

builder_vars == <<builder, pc, data_buf, result, call, added, blocks, reused>>
hybrid_vars == <<engine, snapshot_call>>
vars == <<builder, pc, data_buf, result, call, added, blocks, reused, engine, snapshot_call>>

NoResult == [id |-> 0, smallest |-> <<>>, biggest |-> <<>>]
NoCall ==
    [base_off |-> 0, pre |-> <<>>, filter_ok |-> FALSE, footer |-> Footer_default,
     data |-> <<>>, old_data |-> <<>>, index |-> <<>>, old_index |-> <<>>,
     properties |-> <<>>]
NoBlocks == [cur |-> <<>>, old |-> <<>>]

\* The entries staged in the open block of a block builder.
Staged(bb) ==
    [i \in 1..length(bb.block.tmp_keys) |->
        [key |-> get_entry(bb.block.tmp_keys, i - 1),
         val |-> decode(get_entry(bb.block.tmp_vals, i - 1)),
         old_ver |-> bb.block.old_vers[i]]]

\* Where build_entry writes each staged entry of the open block: the length
\* of buf, counted from the start of the entries region, before entry i.
EntryPositions(bb) ==
    LET cpl == get_block_common_prefix_len(bb)
        e == [bb EXCEPT !.buf = <<>>]
    IN  [i \in 1..length(bb.block.tmp_keys) |->
            Len(build_entries(e, 0, i - 1, cpl).buf)]

\* The log of finished blocks after a step that took a block builder from
\* bb0 to bb1: a block was finished iff bytes were appended to buf.
Logged(log, bb0, bb1) ==
    IF Len(bb1.buf) > Len(bb0.buf)
    THEN Append(log, [start |-> Len(bb0.buf),
                      bytes |-> Slice(bb1.buf, Len(bb0.buf), Len(bb1.buf)),
                      staged |-> Staged(bb0),
                      positions |-> EntryPositions(bb0)])
    ELSE log

Init ==
    /\ builder \in {Builder_new(fid, opt) : fid \in Fids, opt \in Options}
    /\ pc = "building"
    /\ data_buf = <<>>
    /\ result = NoResult
    /\ call = NoCall
    /\ added = <<>>
    /\ blocks = NoBlocks
    /\ reused = FALSE
    /\ engine = NewHybridEngine
    /\ snapshot_call = NoSnapshotCall

Add(key, val) ==
    /\ pc = "building"
    /\ Len(added) < MaxAdds
    /\ builder' = add(builder, key, val)
    /\ added' = Append(added, [key |-> key, val |-> val])
    /\ blocks' = [cur |-> Logged(blocks.cur, builder.block_builder,
                                 builder'.block_builder),
                  old |-> Logged(blocks.old, builder.old_builder,
                                 builder'.old_builder)]
    /\ UNCHANGED <<pc, data_buf, result, call, reused>>
    /\ UNCHANGED hybrid_vars

\* add with the keys in non-decreasing order, as the callers supply them.
AddSorted ==
    \E key \in Keys, val \in Values :
        /\ IF added = <<>> THEN TRUE ELSE KeyLeq(added[Len(added)].key, key)
        /\ Add(key, val)

Finish(args, filter_ok) ==
    /\ pc = "building"
    /\ \E s2 \in {finish_open_blocks(builder)} :
         \E log \in {[cur |-> Logged(blocks.cur, builder.block_builder,
                                     s2.block_builder),
                      old |-> Logged(blocks.old, builder.old_builder,
                                     s2.old_builder)]} :
           IF finish_assertion(s2)
           THEN \E r \in {finish_sections(s2, args.base_off, args.data_buf,
                                          filter_ok)} :
                /\ pc' = "finished"
                /\ builder' = r.self
                /\ data_buf' = r.data_buf
                /\ result' = r.result
                /\ call' = [base_off |-> args.base_off, pre |-> args.data_buf,
                            filter_ok |-> filter_ok, footer |-> r.footer,
                            data |-> r.data, old_data |-> r.old_data,
                            index |-> r.index, old_index |-> r.old_index,
                            properties |-> r.properties]
                /\ blocks' = log
           ELSE /\ pc' = "panicked"
                /\ builder' = s2
                /\ data_buf' = args.data_buf
                /\ call' = [NoCall EXCEPT !.base_off = args.base_off,
                                          !.pre = args.data_buf]
                /\ blocks' = log
                /\ UNCHANGED result
    /\ UNCHANGED <<added, reused>>
    /\ UNCHANGED hybrid_vars

FinishAny == \E args \in FinishArgs, filter_ok \in BOOLEAN : Finish(args, filter_ok)

Reset(fid) ==
    /\ pc \in {"building", "finished"}
    /\ builder' = reset(builder, fid)
    /\ pc' = "building"
    /\ data_buf' = <<>>
    /\ result' = NoResult
    /\ call' = NoCall
    /\ added' = <<>>
    /\ blocks' = NoBlocks
    /\ UNCHANGED reused
    /\ UNCHANGED hybrid_vars

ResetAny == \E fid \in Fids : Reset(fid)

Next == AddSorted \/ FinishAny \/ ResetAny

Spec == Init /\ [][Next]_vars

\* The builder fed with the records of the duplicate-promotion scenario:
\* keys "k" and "m", versions 10, 7, 3 and 1.
ScenarioKeys == {<<107>>, <<109>>}
ScenarioValues == {Value(0, v, <<>>, <<>>) : v \in {10, 7, 3, 1}}

AddScenario ==
    \E key \in ScenarioKeys, val \in ScenarioValues :
        /\ IF added = <<>> THEN TRUE ELSE KeyLeq(added[Len(added)].key, key)
        /\ Add(key, val)

NextScenario == AddScenario \/ FinishAny \/ ResetAny

SpecScenario == Init /\ [][NextScenario]_vars

\* Two records: versions 1 and 0, with and without the META_HAS_OLD bit.
WideValues == {Value(1, 1, <<>>, <<9>>), Value(META_HAS_OLD + 1, 0, <<>>, <<>>)}

\* The builder reused after reset, with the resets recorded in reused.
ReuseKeys == {<<>>, <<1>>, <<1, 1>>}

AddReuse ==
    \E key \in ReuseKeys, val \in WideValues :
        /\ IF added = <<>> THEN TRUE ELSE KeyLeq(added[Len(added)].key, key)
        /\ Add(key, val)

ResetTracked(fid) ==
    /\ pc \in {"building", "finished"}
    /\ builder' = reset(builder, fid)
    /\ pc' = "building"
    /\ data_buf' = <<>>
    /\ result' = NoResult
    /\ call' = NoCall
    /\ added' = <<>>
    /\ blocks' = NoBlocks
    /\ reused' = TRUE
    /\ UNCHANGED hybrid_vars

ResetTrackedAny == \E fid \in Fids : ResetTracked(fid)

NextReuse == AddReuse \/ FinishAny \/ ResetTrackedAny

SpecReuse == Init /\ [][NextReuse]_vars

\* The builder fed with runs of duplicates of two keys, whose records of 14
\* and 15 bytes are below and above block_size.
DupKeys == {<<1, 1>>, <<1, 2>>}

AddDuplicates ==
    \E key \in DupKeys, val \in WideValues :
        /\ IF added = <<>> THEN TRUE ELSE KeyLeq(added[Len(added)].key, key)
        /\ Add(key, val)

NextDuplicates == AddDuplicates \/ FinishAny \/ ResetAny

SpecDuplicates == Init /\ [][NextDuplicates]_vars

\* The builder with blocks of one or two entries and with blocks of three,
\* fed with keys that share prefixes of length 1 and 2, in sorted order.
WideOptions == {[block_size |-> 14], [block_size |-> 40]}
PrefixKeys == {<<1>>, <<1, 1>>, <<1, 1, 2>>, <<1, 1, 3>>, <<1, 2>>}

InitWide ==
    /\ builder \in {Builder_new(fid, opt) : fid \in Fids, opt \in WideOptions}
    /\ pc = "building"
    /\ data_buf = <<>>
    /\ result = NoResult
    /\ call = NoCall
    /\ added = <<>>
    /\ blocks = NoBlocks
    /\ reused = FALSE
    /\ engine = NewHybridEngine
    /\ snapshot_call = NoSnapshotCall

AddPrefix ==
    \E key \in PrefixKeys, val \in WideValues :
        /\ IF added = <<>> THEN TRUE ELSE KeyLeq(added[Len(added)].key, key)
        /\ Add(key, val)

NextWide == AddPrefix \/ FinishAny \/ ResetAny

SpecWide == InitWide /\ [][NextWide]_vars

\* The builder fed with keys in any order, with the panics of the slices
\* in finish_block and build_index: a panic ends the call where it is
\* raised and the run with it.
UnsortedKeys == {<<>>, <<1, 1>>, <<2>>}

AddAnyOrder ==
    \E key \in UnsortedKeys, val \in WideValues :
        IF add_panics(builder, key, val)
        THEN /\ pc = "building"
             /\ Len(added) < MaxAdds
             /\ pc' = "panicked"
             /\ added' = Append(added, [key |-> key, val |-> val])
             /\ UNCHANGED <<builder, data_buf, result, call, blocks, reused>>
             /\ UNCHANGED hybrid_vars
        ELSE Add(key, val)

FinishAnyOrder(args, filter_ok) ==
    IF finish_open_blocks_panics(builder)
    THEN /\ pc = "building"
         /\ pc' = "panicked"
         /\ data_buf' = args.data_buf
         /\ call' = [NoCall EXCEPT !.base_off = args.base_off,
                                   !.pre = args.data_buf]
         /\ UNCHANGED <<builder, result, added, blocks, reused>>
         /\ UNCHANGED hybrid_vars
    ELSE \E s2 \in {finish_open_blocks(builder)} :
           IF /\ finish_assertion(s2)
              /\ \/ build_index_panics(s2.block_builder)
                 \/ build_index_panics(s2.old_builder)
           THEN /\ pc = "building"
                /\ pc' = "panicked"
                /\ builder' = s2
                /\ data_buf' =
                     args.data_buf \o s2.block_builder.buf \o s2.old_builder.buf
                       \o (IF build_index_panics(s2.block_builder) THEN <<>>
                           ELSE build_index(s2.block_builder, args.base_off,
                                            s2.checksum_tp, s2.key_hashes,
                                            filter_ok).buf)
                /\ call' = [NoCall EXCEPT !.base_off = args.base_off,
                                          !.pre = args.data_buf]
                /\ blocks' = [cur |-> Logged(blocks.cur, builder.block_builder,
                                             s2.block_builder),
                              old |-> Logged(blocks.old, builder.old_builder,
                                             s2.old_builder)]
                /\ UNCHANGED <<result, added, reused>>
                /\ UNCHANGED hybrid_vars
           ELSE Finish(args, filter_ok)

FinishAnyOrderAny ==
    \E args \in FinishArgs, filter_ok \in BOOLEAN : FinishAnyOrder(args, filter_ok)

NextUnsorted == AddAnyOrder \/ FinishAnyOrderAny \/ ResetAny

SpecUnsorted == InitWide /\ [][NextUnsorted]_vars

\* ------------------------------------------------------------------------
\* Reading a finished block back (the layout of finish_block, as a reader
\* of the format walks it).
\* ------------------------------------------------------------------------
NumEntries(b) == read_le(b, 4, 4)
StoredOffsets(b) == [i \in 1..NumEntries(b) |-> read_le(b, 8 + 4 * (i - 1), 4)]
PrefixLen(b) == read_le(b, 8 + 4 * NumEntries(b), 2)
EntriesBase(b) == 10 + 4 * NumEntries(b) + PrefixLen(b)
CommonPrefix(b) == Slice(b, 10 + 4 * NumEntries(b), EntriesBase(b))

\* One entry record; version and old_version are kept as their 8 bytes.
ParseEntry(e, prefix) ==
    LET ksl == read_le(e, 0, 2)
        p == 2 + ksl
        meta == ByteAt(e, p)
        q == IF HasOldBit(meta) THEN p + 17 ELSE p + 9
        uml == ByteAt(e, q)
    IN  [key |-> prefix \o Slice(e, 2, p),
         meta |-> meta,
         version |-> Slice(e, p + 1, p + 9),
         old_version |-> IF HasOldBit(meta) THEN Slice(e, p + 9, p + 17) ELSE <<>>,
         user_meta |-> Slice(e, q + 1, q + 1 + uml),
         value |-> Slice(e, q + 1 + uml, Len(e))]

\* The entries of block b when entry i starts at pos[i] of the entries
\* region and ends where the next one starts (the last: at the block's end).
EntriesAt(b, pos) ==
    LET base == EntriesBase(b)
        n == Len(pos)
    IN  [i \in 1..n |->
            ParseEntry(Slice(b, base + pos[i],
                             IF i < n THEN base + pos[i + 1] ELSE Len(b)),
                       CommonPrefix(b))]

\* The entries a reader finds by the stored offsets.
ReadEntries(b) == EntriesAt(b, StoredOffsets(b))

\* The entries of a logged block as build_entry wrote them.
WrittenEntries(blk) == EntriesAt(blk.bytes, blk.positions)

\* All entries of a stream, block after block.
RECURSIVE StreamEntries(_)
StreamEntries(log) ==
    IF log = <<>> THEN <<>>
    ELSE WrittenEntries(Head(log)) \o StreamEntries(Tail(log))

\* How many records of a sequence carry key k.
CountKey(seq, k) == Cardinality({i \in 1..Len(seq) : seq[i].key = k})

\* The records added for key k, in order of arrival.
RECURSIVE RecordsOf(_, _)
RecordsOf(seq, k) ==
    IF seq = <<>> THEN <<>>
    ELSE IF Head(seq).key = k THEN <<Head(seq)>> \o RecordsOf(Tail(seq), k)
    ELSE RecordsOf(Tail(seq), k)

\* ------------------------------------------------------------------------
\* C1: after finish, a key added n >= 1 times has exactly one entry in the
\* current stream and exactly n-1 entries in the old-versions stream (and
\* the header of every block counts the entries written to it).
\* ------------------------------------------------------------------------
C1_OneCurrentRestOld ==
    pc = "finished" =>
        /\ \A k \in Keys :
             LET n == CountKey(added, k)
             IN  n >= 1 =>
                   /\ CountKey(StreamEntries(blocks.cur), k) = 1
                   /\ CountKey(StreamEntries(blocks.old), k) = n - 1
        /\ \A s \in {"cur", "old"} : \A j \in 1..Len(blocks[s]) :
             NumEntries(blocks[s][j].bytes) = Len(blocks[s][j].positions)

C1_Witness ==
    /\ pc = "finished"
    /\ \E k1, k2 \in Keys :
         /\ CountKey(added, k1) = 3
         /\ CountKey(added, k2) = 1
         /\ CountKey(StreamEntries(blocks.old), k1) = 2

\* The versions of a sequence of records (added ones or parsed entries).
VersionsOf(seq) == [i \in 1..Len(seq) |-> seq[i].version]
AddedVersions(seq) == [i \in 1..Len(seq) |-> put_u64_le(seq[i].val.version)]

\* add("k", 10), add("k", 7), add("k", 3), add("m", 1).
ScenarioAdds ==
    <<[key |-> <<107>>, val |-> Value(0, 10, <<>>, <<>>)],
      [key |-> <<107>>, val |-> Value(0, 7, <<>>, <<>>)],
      [key |-> <<107>>, val |-> Value(0, 3, <<>>, <<>>)],
      [key |-> <<109>>, val |-> Value(0, 1, <<>>, <<>>)]>>

\* ------------------------------------------------------------------------
\* C2 as stated: only the second and later duplicates of a key are in the
\* old-versions stream; after the scenario that stream holds exactly one
\* entry for "k", of version 3.
\* ------------------------------------------------------------------------
C2_OnlyLaterDuplicatesInOld ==
    pc = "finished" =>
        /\ \A k \in ScenarioKeys :
             LET recs == RecordsOf(added, k)
             IN  Len(recs) >= 1 =>
                   VersionsOf(RecordsOf(StreamEntries(blocks.old), k))
                     = AddedVersions(SubSeq(recs, 3, Len(recs)))
        /\ added = ScenarioAdds =>
             VersionsOf(RecordsOf(StreamEntries(blocks.old), <<107>>))
               = <<put_u64_le(3)>>

\* ------------------------------------------------------------------------
\* C2 as amended: every duplicate of a key, the first one included, is
\* appended to the old-versions stream, in order of arrival; after the
\* scenario that stream holds exactly two entries for "k", of versions 7
\* and 3, and the current entry of "k" carries old_version 7.
\* ------------------------------------------------------------------------
C2_EveryDuplicateInOld ==
    pc = "finished" =>
        /\ \A k \in ScenarioKeys :
             LET recs == RecordsOf(added, k)
             IN  Len(recs) >= 1 =>
                   VersionsOf(RecordsOf(StreamEntries(blocks.old), k))
                     = AddedVersions(SubSeq(recs, 2, Len(recs)))
        /\ added = ScenarioAdds =>
             /\ VersionsOf(RecordsOf(StreamEntries(blocks.old), <<107>>))
                  = <<put_u64_le(7), put_u64_le(3)>>
             /\ LET cur == RecordsOf(StreamEntries(blocks.cur), <<107>>)
                IN  Len(cur) = 1 /\ cur[1].old_version = put_u64_le(7)

C2_Witness == pc = "finished" /\ added = ScenarioAdds

\* The old_version an entry records: its old_version field, and version 0
\* ("no older version") when the field is absent.
RecordedOldVersion(e) ==
    IF e.old_version = <<>> THEN put_u64_le(0) ELSE e.old_version

\* ------------------------------------------------------------------------
\* C3: a key added two or more times has, in its current entry, the
\* version of its first duplicate (the second record added for it) as
\* old_version, in the open block while building and in the current stream
\* after finish, whatever later duplicates follow.
\* ------------------------------------------------------------------------
C3_OldVersionIsFirstDuplicate ==
    /\ (pc = "building" /\ added # <<>>) =>
          LET recs == RecordsOf(added, added[Len(added)].key)
              old_vers == builder.block_builder.block.old_vers
          IN  Len(recs) >= 2 => old_vers[Len(old_vers)] = recs[2].val.version
    /\ pc = "finished" =>
          \A k \in Keys :
             LET recs == RecordsOf(added, k)
                 cur == RecordsOf(StreamEntries(blocks.cur), k)
             IN  Len(recs) >= 2 =>
                   /\ Len(cur) = 1
                   /\ RecordedOldVersion(cur[1]) = put_u64_le(recs[2].val.version)

\* ------------------------------------------------------------------------
\* C4: the meta byte emitted for a key's current entry has META_HAS_OLD set
\* iff the key was added two or more times, and its other bits are those
\* of the record that entered the current stream.
\* ------------------------------------------------------------------------
C4_HasOldIffDuplicated ==
    pc = "finished" =>
        \A k \in Keys :
           LET recs == RecordsOf(added, k)
               cur == RecordsOf(StreamEntries(blocks.cur), k)
           IN  Len(recs) >= 1 =>
                 /\ Len(cur) = 1
                 /\ HasOldBit(cur[1].meta) <=> Len(recs) >= 2
                 /\ ClearHasOld(cur[1].meta) = ClearHasOld(recs[1].val.meta)

\* ------------------------------------------------------------------------
\* C5: smallest is the first key added since construction or the last
\* reset, from the first add on, and finish returns it.
\* ------------------------------------------------------------------------
C5_SmallestIsFirstKey ==
    /\ added # <<>> => builder.smallest = added[1].key
    /\ pc = "finished" => result.smallest = added[1].key

\* ------------------------------------------------------------------------
\* Reading the properties section back: the checksum, then records of
\* key_len (u16), key, val_len (u32), val.
\* ------------------------------------------------------------------------
RECURSIVE ReadPropertyRecords(_, _)
ReadPropertyRecords(props, pos) ==
    IF pos >= Len(props) THEN <<>>
    ELSE LET klen == read_le(props, pos, 2)
             vpos == pos + 2 + klen
             vlen == read_le(props, vpos, 4)
         IN  <<[key |-> Slice(props, pos + 2, vpos),
                val |-> Slice(props, vpos + 4, vpos + 4 + vlen)]>>
               \o ReadPropertyRecords(props, vpos + 4 + vlen)

ReadProperties(props) == ReadPropertyRecords(props, 4)

\* The SST blob finish appended: the caller's buffer after the bytes it
\* held before the call.
Blob == Slice(data_buf, Len(call.pre), Len(data_buf))

\* The footer as a reader finds it: the last FOOTER_SIZE bytes of the blob.
BlobFooter == unmarshal(Slice(Blob, Len(Blob) - FOOTER_SIZE, Len(Blob)))

\* The properties section as a reader finds it.
BlobProperties ==
    Slice(Blob, BlobFooter.properties_offset, Len(Blob) - FOOTER_SIZE)

\* ------------------------------------------------------------------------
\* C6: biggest is empty until finish; the biggest that finish returns, and
\* writes to the properties section, is the last key added (the last key
\* that entered the current stream).
\* ------------------------------------------------------------------------
C6_BiggestIsLastKey ==
    /\ pc = "building" => builder.biggest = <<>>
    /\ pc = "finished" =>
          LET last == added[Len(added)].key
              props == ReadProperties(BlobProperties)
          IN  /\ result.biggest = last
              /\ Len(props) = 2
              /\ props[2] = [key |-> PROP_KEY_BIGGEST, val |-> last]

C6_Witness ==
    /\ pc = "finished"
    /\ Len(added) = 4
    /\ added[1].key # added[2].key
    /\ added[2].key # added[3].key
    /\ added[3].key = added[4].key
    /\ Len(blocks.cur) = 2
    /\ Len(blocks.cur[2].staged) = 2
    /\ result.biggest = added[4].key

\* The bytes of the logged blocks of a stream, one after the other.
RECURSIVE BlocksBytes(_)
BlocksBytes(log) ==
    IF log = <<>> THEN <<>> ELSE Head(log).bytes \o BlocksBytes(Tail(log))

\* The length of the properties section that holds smallest and biggest:
\* the checksum, and per property key_len, key, val_len and val.
PropertiesLayoutLen ==
    4 + (2 + Len(PROP_KEY_SMALLEST) + 4 + Len(result.smallest))
      + (2 + Len(PROP_KEY_BIGGEST) + 4 + Len(result.biggest))

\* ------------------------------------------------------------------------
\* C7: the footer at the end of the blob holds the cumulative lengths of
\* the sections (the blocks of the current stream, the blocks of the
\* old-versions stream, the current index, the old-versions index), its
\* offsets are ordered, and the lengths derived from it add up, with
\* FOOTER_SIZE, to the number of bytes finish appended.
\* ------------------------------------------------------------------------
C7_FooterOffsetsCumulative ==
    pc = "finished" =>
        LET f == BlobFooter
            total == Len(data_buf) - Len(call.pre)
        IN  /\ f = call.footer
            /\ f.old_data_offset = Len(BlocksBytes(blocks.cur))
            /\ f.index_offset = f.old_data_offset + Len(BlocksBytes(blocks.old))
            /\ f.old_index_offset = f.index_offset + Len(builder.block_builder.buf)
            /\ f.properties_offset = f.old_index_offset + Len(builder.old_builder.buf)
            /\ 0 <= f.old_data_offset
            /\ f.old_data_offset <= f.index_offset
            /\ f.index_offset <= f.old_index_offset
            /\ f.old_index_offset <= f.properties_offset
            /\ properties_len(f, total) = PropertiesLayoutLen
            /\ data_len(f) + old_data_len(f) + index_len(f) + old_index_len(f)
                 + properties_len(f, total) + FOOTER_SIZE = total

C7_Witness ==
    /\ pc = "finished"
    /\ call.pre # <<>>
    /\ Len(blocks.cur) = 2
    /\ Len(blocks.old) >= 1
    /\ BlobFooter.old_data_offset < BlobFooter.index_offset

\* ------------------------------------------------------------------------
\* C8: finish leaves the bytes the caller's buffer held and appends, in
\* this order, the current data section, the old-versions data section,
\* the current index, the old-versions index, the properties section and,
\* last, the footer.
\* ------------------------------------------------------------------------
C8_FinishAppendsSections ==
    pc = "finished" =>
        /\ Slice(data_buf, 0, Len(call.pre)) = call.pre
        /\ Blob = BlocksBytes(blocks.cur) \o BlocksBytes(blocks.old)
                    \o builder.block_builder.buf \o builder.old_builder.buf
                    \o call.properties \o marshal(call.footer)
        /\ ReadProperties(call.properties)
             = <<[key |-> PROP_KEY_SMALLEST, val |-> result.smallest],
                 [key |-> PROP_KEY_BIGGEST, val |-> result.biggest]>>
        /\ read_le(builder.block_builder.buf, 4, 4) = Len(blocks.cur)
        /\ read_le(builder.old_builder.buf, 4, 4) = Len(blocks.old)
        /\ Slice(data_buf, Len(data_buf) - FOOTER_SIZE, Len(data_buf))
             = marshal(call.footer)
        /\ call.footer.magic = MAGIC_NUMBER

C8_Witness ==
    /\ pc = "finished"
    /\ call.pre # <<>>
    /\ blocks.old # <<>>
    /\ call.filter_ok
    /\ Len(blocks.cur) = 2

\* ------------------------------------------------------------------------
\* Reading an index section back (the layout of build_index).
\* ------------------------------------------------------------------------
ReadIndex(idx) ==
    LET n == read_le(idx, 4, 4)
        recs == 8 + 4 * n
        cplpos == recs + 16 * n
        cpl == read_le(idx, cplpos, 2)
        prefix == Slice(idx, cplpos + 2, cplpos + 2 + cpl)
        klpos == cplpos + 2 + cpl
        keys_len == read_le(idx, klpos, 4)
        suffixes == Slice(idx, klpos + 4, klpos + 4 + keys_len)
        key_off == [j \in 1..n |-> read_le(idx, 8 + 4 * (j - 1), 4)]
    IN  [num_blocks |-> n,
         prefix |-> prefix,
         keys |-> [j \in 1..n |->
                     prefix \o Slice(suffixes, key_off[j],
                                     IF j < n THEN key_off[j + 1] ELSE keys_len)],
         addrs |-> [j \in 1..n |->
                     [origin_fid |-> read_le(idx, recs + 16 * (j - 1), 8),
                      origin_off |-> read_le(idx, recs + 16 * (j - 1) + 8, 4),
                      curr_off |-> read_le(idx, recs + 16 * (j - 1) + 12, 4)]],
         extras |-> Slice(idx, klpos + 4 + keys_len, Len(idx))]

\* The index sections as a reader finds them by the footer.
BlobIndex == Slice(Blob, BlobFooter.index_offset, BlobFooter.old_index_offset)
BlobOldIndex == Slice(Blob, BlobFooter.old_index_offset, BlobFooter.properties_offset)

\* The index idx describes the blocks of log, which lie in the blob from
\* position section on: one record per block, in order, with the block's
\* first key and base_off plus the position of the block's first byte.
IndexDescribes(idx, log, section) ==
    LET ix == ReadIndex(idx)
    IN  /\ ix.num_blocks = Len(log)
        /\ \A j \in 1..Len(log) :
             LET pos == section + log[j].start
             IN  /\ ix.keys[j] = log[j].staged[1].key
                 /\ ix.addrs[j].curr_off = call.base_off + pos
                 /\ Slice(Blob, pos, pos + Len(log[j].bytes)) = log[j].bytes
        /\ \A j \in 1..(Len(log) - 1) :
             ix.addrs[j].curr_off < ix.addrs[j + 1].curr_off

\* ------------------------------------------------------------------------
\* C9: after finish, the index of each stream has one record per finished
\* block, in block order, with the first key of the block and an offset of
\* base_off plus the position of the block in the blob; the offsets of
\* consecutive blocks strictly increase.
\* ------------------------------------------------------------------------
C9_IndexDescribesBlocks ==
    pc = "finished" =>
        /\ IndexDescribes(BlobIndex, blocks.cur, 0)
        /\ IndexDescribes(BlobOldIndex, blocks.old, BlobFooter.old_data_offset)

C9_Witness ==
    /\ pc = "finished"
    /\ call.base_off > 0
    /\ Len(blocks.cur) = 2
    /\ Len(blocks.old) = 2
    /\ Len(blocks.cur[1].staged) = 1
    /\ ReadIndex(BlobOldIndex).num_blocks = 2

\* ------------------------------------------------------------------------
\* C10: in every finished block of either stream, the stored entry offsets
\* are the positions at which build_entry wrote the entries, so that the
\* entries read by the stored offsets are the staged entries, in order.
\* ------------------------------------------------------------------------
C10_StoredOffsetsArePositions ==
    pc = "finished" =>
        \A s \in {"cur", "old"} : \A j \in 1..Len(blocks[s]) :
            LET blk == blocks[s][j]
                read == ReadEntries(blk.bytes)
            IN  /\ StoredOffsets(blk.bytes) = blk.positions
                /\ read = WrittenEntries(blk)
                /\ Len(read) = Len(blk.staged)
                /\ \A i \in 1..Len(blk.staged) :
                     /\ read[i].key = blk.staged[i].key
                     /\ read[i].version = put_u64_le(blk.staged[i].val.version)
                     /\ read[i].user_meta = blk.staged[i].val.user_meta
                     /\ read[i].value = blk.staged[i].val.value

\* Some duplicate was added with version 0.
ZeroVersionDuplicate ==
    \E i \in 2..Len(added) :
        added[i].key = added[i - 1].key /\ added[i].val.version = 0

\* Where the stored offsets go wrong: only in builds with a duplicate of
\* version 0 (set_last_entry_old_ver_if_zero then grows entry_sizes by 8
\* for an old_version that build_entry does not write).
StoredOffsetsExactWithoutZeroVersion ==
    ZeroVersionDuplicate \/ C10_StoredOffsetsArePositions

\* p is a prefix of key k.
PrefixOf(p, k) == Len(p) <= Len(k) /\ SubSeq(k, 1, Len(p)) = p

\* The keys of an index as a reader rebuilds them are the first keys of the
\* blocks of log, and the stored common prefix is a prefix of each.
IndexKeysRoundTrip(idx, log) ==
    LET ix == ReadIndex(idx)
    IN  /\ ix.num_blocks = Len(log)
        /\ \A j \in 1..Len(log) :
             /\ PrefixOf(ix.prefix, log[j].staged[1].key)
             /\ ix.keys[j] = log[j].staged[1].key

\* ------------------------------------------------------------------------
\* C11: with keys added in non-decreasing order, the common prefix stored
\* in a finished block (that of its first and last key) is a prefix of
\* every key staged for the block, and the stored prefix followed by the
\* stored key_suffix of entry i is the i-th staged key; likewise for the
\* block-start keys of the two indexes after finish.
\* ------------------------------------------------------------------------
C11_CommonPrefixRoundTrip ==
    /\ \A s \in {"cur", "old"} : \A j \in 1..Len(blocks[s]) :
          LET blk == blocks[s][j]
              n == Len(blk.staged)
              prefix == CommonPrefix(blk.bytes)
              written == WrittenEntries(blk)
          IN  /\ Len(prefix) = key_diff_idx(blk.staged[1].key, blk.staged[n].key)
              /\ Len(written) = n
              /\ \A i \in 1..n :
                    /\ PrefixOf(prefix, blk.staged[i].key)
                    /\ written[i].key = blk.staged[i].key
    /\ pc = "finished" =>
          /\ IndexKeysRoundTrip(BlobIndex, blocks.cur)
          /\ IndexKeysRoundTrip(BlobOldIndex, blocks.old)

\* A block of three keys whose middle key is longer than the first and
\* the last, which share a prefix of two bytes.
C11_Witness ==
    /\ pc = "finished"
    /\ \E j \in 1..Len(blocks.cur) :
          LET blk == blocks.cur[j]
          IN  /\ Len(blk.staged) = 3
              /\ Len(CommonPrefix(blk.bytes)) = 2
              /\ blk.staged[2].key # blk.staged[1].key
              /\ blk.staged[2].key # blk.staged[3].key
              /\ Len(blk.staged[3].key) > 2

\* The builder after the adds of seq, in order.
RECURSIVE RunAdds(_, _)
RunAdds(self, seq) ==
    IF seq = <<>> THEN self
    ELSE RunAdds(add(self, Head(seq).key, Head(seq).val), Tail(seq))

\* A builder freshly constructed with the fid and the options of builder.
FreshBuilder(fid) == Builder_new(fid, [block_size |-> builder.block_size])

\* ------------------------------------------------------------------------
\* C12: reset(fid), called mid-build or after finish, leaves the builder
\* in the state of a builder freshly constructed with that fid and the
\* same options; the adds made after a reset, and the finish after them,
\* leave the builder, the caller's buffer and the BuildResult that the
\* same calls leave on a fresh builder.
\* ------------------------------------------------------------------------
C12_ResetEqualsFresh ==
    /\ pc \in {"building", "finished"} =>
          \A fid \in Fids : reset(builder, fid) = FreshBuilder(fid)
    /\ (reused /\ pc = "building") =>
          builder = RunAdds(FreshBuilder(builder.fid), added)
    /\ (reused /\ pc = "finished") =>
          LET out == finish(RunAdds(FreshBuilder(builder.fid), added),
                            call.base_off, call.pre, call.filter_ok)
          IN  /\ builder = out.self
              /\ data_buf = out.data_buf
              /\ result = out.result

C12_Witness ==
    /\ reused
    /\ pc = "finished"
    /\ Len(blocks.cur) >= 2
    /\ blocks.old # <<>>
    /\ call.filter_ok
    /\ \A fid \in Fids : reset(builder, fid) = FreshBuilder(fid)

\* ------------------------------------------------------------------------
\* C13: finish on a builder that received no add since construction or
\* reset fails its assertion and leaves the caller's buffer as it was;
\* finish after at least one add passes the assertion.
\* ------------------------------------------------------------------------
C13_EmptyFinishAsserts ==
    /\ pc = "building" =>
          (finish_assertion(finish_open_blocks(builder)) <=> added # <<>>)
    /\ pc = "panicked" =>
          /\ added = <<>>
          /\ data_buf = call.pre
          /\ result = NoResult
    /\ pc = "finished" => added # <<>>

C13_Witness ==
    /\ pc = "panicked"
    /\ reused
    /\ added = <<>>
    /\ call.pre # <<>>
    /\ data_buf = call.pre

\* ------------------------------------------------------------------------
\* C14: while building, is_empty() is true exactly when no record was
\* added since construction or the last reset, which is exactly when
\* finish would fail its assertion; after an add of any key it is false.
\* ------------------------------------------------------------------------
C14_IsEmptyIffNoAdds ==
    pc = "building" =>
        /\ is_empty(builder) <=> added = <<>>
        /\ is_empty(builder) <=> ~finish_assertion(finish_open_blocks(builder))

\* Where is_empty goes wrong: only in builds whose first key is empty.
IsEmptyExactWithoutEmptyFirstKey ==
    (pc = "building" /\ added # <<>> /\ added[1].key # <<>>) =>
        ~is_empty(builder)

\* Reading the extras of an index back: records of type, subtype, length
\* (u32) and content, up to the EXTRA_END byte.
RECURSIVE ExtraRecords(_, _)
ExtraRecords(ex, pos) ==
    IF pos >= Len(ex) \/ ByteAt(ex, pos) = EXTRA_END THEN <<>>
    ELSE LET len == read_le(ex, pos + 2, 4)
         IN  <<[tp |-> ByteAt(ex, pos), sub |-> ByteAt(ex, pos + 1),
                content |-> Slice(ex, pos + 6, pos + 6 + len)]>>
               \o ExtraRecords(ex, pos + 6 + len)

\* The position of the EXTRA_END byte that ends the records; -1 if the
\* extras run out before one.
RECURSIVE ExtrasEnd(_, _)
ExtrasEnd(ex, pos) ==
    IF pos >= Len(ex) THEN -1
    ELSE IF ByteAt(ex, pos) = EXTRA_END THEN pos
    ELSE ExtrasEnd(ex, pos + 6 + read_le(ex, pos + 2, 4))

\* The EXTRA_FILTER records among the extras.
FilterRecords(ex) ==
    LET recs == ExtraRecords(ex, 0)
    IN  {i \in 1..Len(recs) : recs[i].tp = EXTRA_FILTER}

\* ------------------------------------------------------------------------
\* C15: with filter construction succeeding or failing, the index of the
\* current stream holds exactly one EXTRA_FILTER record iff key_hashes is
\* not empty and the construction succeeded, the index of the old-versions
\* stream holds none, and each index ends with the EXTRA_END byte, which
\* directly follows the block-key suffixes when no filter is emitted.
\* ------------------------------------------------------------------------
C15_FilterIffBuilt ==
    pc = "finished" =>
        LET cur == ReadIndex(BlobIndex).extras
            old == ReadIndex(BlobOldIndex).extras
            emitted == builder.key_hashes # <<>> /\ call.filter_ok
        IN  /\ Cardinality(FilterRecords(cur)) = IF emitted THEN 1 ELSE 0
            /\ emitted =>
                  /\ Len(ExtraRecords(cur, 0)) = 1
                  /\ ExtraRecords(cur, 0)[1].sub = EXTRA_FILTER_TYPE_BINARY_FUSE_8
                  /\ ExtraRecords(cur, 0)[1].content # <<>>
            /\ ~emitted => cur = <<EXTRA_END>>
            /\ FilterRecords(old) = {}
            /\ old = <<EXTRA_END>>
            /\ ExtrasEnd(cur, 0) = Len(cur) - 1
            /\ ExtrasEnd(old, 0) = Len(old) - 1

\* The construction failed for a build with several key hashes and with
\* old versions.
C15_Witness ==
    /\ pc = "finished"
    /\ ~call.filter_ok
    /\ Len(builder.key_hashes) >= 2
    /\ blocks.old # <<>>
    /\ ReadIndex(BlobIndex).extras = <<EXTRA_END>>

\* The keys staged for the finished blocks of a stream, block after block.
RECURSIVE LoggedKeys(_)
LoggedKeys(log) ==
    IF log = <<>> THEN <<>>
    ELSE [i \in 1..Len(Head(log).staged) |-> Head(log).staged[i].key]
           \o LoggedKeys(Tail(log))

\* The keys of a stream in insertion order: those of its finished blocks,
\* then those staged in the open block of its builder.
StreamKeys(log, bb) ==
    LoggedKeys(log) \o [i \in 1..length(bb.block.tmp_keys) |-> Staged(bb)[i].key]

\* ------------------------------------------------------------------------
\* C16: key_hashes holds one fingerprint per entry of the current stream
\* (finished blocks, then the open block), in insertion order, and none
\* for the records that went to the old-versions stream.
\* ------------------------------------------------------------------------
C16_OneHashPerCurrentEntry ==
    LET cur == StreamKeys(blocks.cur, builder.block_builder)
        old == StreamKeys(blocks.old, builder.old_builder)
    IN  /\ builder.key_hashes = [i \in 1..Len(cur) |-> fingerprint64(cur[i])]
        /\ Len(builder.key_hashes) + Len(old) = Len(added)

C16_Witness ==
    /\ pc = "building"
    /\ Len(added) = 4
    /\ Len(blocks.cur) = 1
    /\ length(builder.block_builder.block.tmp_keys) = 2
    /\ length(builder.old_builder.block.tmp_keys) = 1
    /\ Len(builder.key_hashes) = 3

\* An add step (one more record in added) finished the open block of the
\* current builder iff cut, and being a duplicate it left the finished
\* blocks of both builders alone and staged its record in the old-versions
\* builder; the open block of the current builder is not empty afterwards.
AddStepCutover(key) ==
    LET bb == builder.block_builder
        ob == builder.old_builder
        bb1 == builder'.block_builder
        ob1 == builder'.old_builder
        staged == length(bb.block.tmp_keys) > 0
        duplicate == IF staged THEN get_last(bb.block.tmp_keys) = key ELSE FALSE
        differs == IF staged THEN get_last(bb.block.tmp_keys) # key ELSE FALSE
        cut == differs /\ bb.block.size > builder.block_size
    IN  /\ (length(bb1.block_keys) = length(bb.block_keys) + 1) <=> cut
        /\ cut =>
              /\ Len(bb1.buf) > Len(bb.buf)
              /\ Len(bb1.block_addrs) = Len(bb.block_addrs) + 1
              /\ length(bb1.block.tmp_keys) = 1
        /\ ~cut =>
              /\ bb1.buf = bb.buf
              /\ bb1.block_keys = bb.block_keys
              /\ bb1.block_addrs = bb.block_addrs
        /\ duplicate =>
              /\ ob1.buf = ob.buf
              /\ ob1.block_keys = ob.block_keys
              /\ ob1.block_addrs = ob.block_addrs
              /\ length(ob1.block.tmp_keys) = length(ob.block.tmp_keys) + 1
              /\ length(bb1.block.tmp_keys) = length(bb.block.tmp_keys)
        /\ length(bb1.block.tmp_keys) > 0

\* ------------------------------------------------------------------------
\* C17: an add finishes the open block of the current builder exactly
\* when its key differs from the last staged key and the size of the open
\* block is greater than block_size; an add of a duplicate key finishes no
\* block of either builder; after every add the open block of the current
\* builder is not empty.
\* ------------------------------------------------------------------------
C17_CutoverOnNewKeyOnly ==
    [][Len(added') = Len(added) + 1 => AddStepCutover(added'[Len(added')].key)]_vars

\* A duplicate was added to an open block larger than block_size, after an
\* earlier block was cut, and the block was still not cut.
C17_Witness ==
    /\ pc = "building"
    /\ Len(added) >= 3
    /\ added[Len(added)].key = added[Len(added) - 1].key
    /\ Len(blocks.cur) >= 1
    /\ length(builder.block_builder.block.tmp_keys) = 1
    /\ builder.block_builder.block.size > builder.block_size

\* ------------------------------------------------------------------------
\* C18 as stated: add and finish never abort after at least one add,
\* whatever the order of the keys; the only call that fails is finish on
\* an empty build.
\* ------------------------------------------------------------------------
C18_NeverAbortsAfterAdd == pc = "panicked" => added = <<>>

\* The keys of the records of seq are in non-decreasing order.
SortedAdds(seq) ==
    \A i \in 1..(Len(seq) - 1) : KeyLeq(seq[i].key, seq[i + 1].key)

\* ------------------------------------------------------------------------
\* C18 as amended: the keys are not validated; an add or a finish that
\* aborts after at least one add was given keys out of order (with the
\* keys in non-decreasing order the only failing call is finish on an
\* empty build: no finish_block and no build_index meets a key shorter
\* than the common prefix of the first and the last key).
\* ------------------------------------------------------------------------
C18_AbortsOnlyOutOfOrder ==
    /\ (pc = "panicked" /\ added # <<>>) => ~SortedAdds(added)
    /\ (pc = "finished") => added # <<>>
    /\ (pc = "building" /\ SortedAdds(added)) =>
          /\ ~finish_open_blocks_panics(builder)
          /\ ~build_index_panics(finish_open_blocks(builder).block_builder)
          /\ ~build_index_panics(finish_open_blocks(builder).old_builder)

\* finish aborted in build_index, after it had appended the data sections
\* to the caller's buffer.
C18_Witness ==
    /\ pc = "panicked"
    /\ Len(added) = 4
    /\ Len(blocks.cur) = 3
    /\ data_buf # call.pre

\* With the keys in non-decreasing order no add and no finish panics in a
\* slice: the next add of a key not below the last, and finish, are safe.
SortedKeysNeverAbort ==
    pc = "building" =>
        /\ \A key \in PrefixKeys, val \in WideValues :
              (IF added = <<>> THEN TRUE ELSE KeyLeq(added[Len(added)].key, key))
                 => ~add_panics(builder, key, val)
        /\ ~finish_open_blocks_panics(builder)
        /\ LET s2 == finish_open_blocks(builder)
           IN  /\ ~build_index_panics(s2.block_builder)
               /\ ~build_index_panics(s2.old_builder)

\* The sum of a sequence of numbers.
RECURSIVE Sum(_)
Sum(seq) == IF seq = <<>> THEN 0 ELSE Head(seq) + Sum(Tail(seq))

\* The two block builders.
BlockBuilders == {builder.block_builder, builder.old_builder}

\* ------------------------------------------------------------------------
\* C19: in every reachable state, the size field of the open block of
\* either block builder is the sum of the block's entry_sizes.
\* ------------------------------------------------------------------------
C19_SizeIsSumOfEntrySizes ==
    \A bb \in BlockBuilders : bb.block.size = Sum(bb.block.entry_sizes)

\* Where size and entry_sizes part: only in the current builder (the one
\* set_last_entry_old_ver_if_zero works on) and only after a duplicate.
SizeIsSumWithoutDuplicates ==
    /\ builder.old_builder.block.size = Sum(builder.old_builder.block.entry_sizes)
    /\ (\A i \in 2..Len(added) : added[i].key # added[i - 1].key) =>
          C19_SizeIsSumOfEntrySizes

\* ------------------------------------------------------------------------
\* C20: in every reachable state, keys, values, old_vers and entry_sizes
\* of the open block of either block builder have the same length, and
\* entry_sizes[i] is 2 + |key_i| + encoded_size(value_i) when old_vers[i]
\* is 0 and 8 more when it is not, whatever the versions of the
\* duplicates.
\* ------------------------------------------------------------------------
C20_EntrySizesAreFootprints ==
    \A bb \in BlockBuilders :
        LET n == length(bb.block.tmp_keys)
        IN  /\ length(bb.block.tmp_vals) = n
            /\ Len(bb.block.old_vers) = n
            /\ Len(bb.block.entry_sizes) = n
            /\ \A i \in 1..n :
                  bb.block.entry_sizes[i]
                    = 2 + Len(Staged(bb)[i].key) + encoded_size(Staged(bb)[i].val)
                        + (IF bb.block.old_vers[i] # 0 THEN 8 ELSE 0)

\* Where entry_sizes goes wrong: only in builds with a duplicate of
\* version 0.
EntrySizesExactWithoutZeroVersion ==
    ZeroVersionDuplicate \/ C20_EntrySizesAreFootprints

\* The keys of the blocks of the old-versions stream, block by block: the
\* finished blocks, then the open block if entries are staged in it.
OldBlocksKeys ==
    LET ob == builder.old_builder
        done == [j \in 1..Len(blocks.old) |->
                   [i \in 1..Len(blocks.old[j].staged) |-> blocks.old[j].staged[i].key]]
    IN  IF length(ob.block.tmp_keys) > 0
        THEN Append(done, [i \in 1..length(ob.block.tmp_keys) |-> Staged(ob)[i].key])
        ELSE done

\* Key a is strictly below key b.
KeyLess(a, b) == KeyLeq(a, b) /\ a # b

\* No key has entries in two blocks of the old-versions stream, and the
\* first keys of its blocks strictly increase, also as the index of the
\* old-versions stream lists them after finish.
OldStreamGrouped ==
    LET bk == OldBlocksKeys
    IN  /\ \A j1, j2 \in 1..Len(bk) :
              j1 # j2 =>
                {bk[j1][i] : i \in 1..Len(bk[j1])}
                  \cap {bk[j2][i] : i \in 1..Len(bk[j2])} = {}
        /\ \A j \in 1..(Len(bk) - 1) : KeyLess(bk[j][1], bk[j + 1][1])
        /\ pc = "finished" =>
              LET ix == ReadIndex(BlobOldIndex)
              IN  /\ ix.num_blocks = Len(bk)
                  /\ \A j \in 1..(ix.num_blocks - 1) :
                        KeyLess(ix.keys[j], ix.keys[j + 1])

\* An add step finished the open block of the old-versions builder iff
\* its key was new and that block was larger than block_size; a duplicate
\* grew that block by its record, whatever the size of the block.
AddStepOldCutover(rec) ==
    LET ob == builder.old_builder
        ob1 == builder'.old_builder
        duplicate == same_last_key(builder.block_builder, rec.key)
    IN  /\ (length(ob1.block_keys) = length(ob.block_keys) + 1)
              <=> (~duplicate /\ ob.block.size > builder.block_size)
        /\ length(ob1.block_keys) \in {length(ob.block_keys), length(ob.block_keys) + 1}
        /\ duplicate =>
              /\ ob1.buf = ob.buf
              /\ ob1.block.size
                   = ob.block.size + 2 + Len(rec.key) + encoded_size(rec.val)
              /\ length(ob1.block.tmp_keys) = length(ob.block.tmp_keys) + 1

\* ------------------------------------------------------------------------
\* C21: add finishes the open block of the old-versions builder only on
\* arrival of a new key, so with keys in non-decreasing order all
\* old-versions entries of a key lie in one old-versions block and the
\* first keys of the old-versions blocks strictly increase; during a run
\* of duplicates the open old-versions block grows with every record,
\* past block_size, without being cut.
\* ------------------------------------------------------------------------
C21_OldCutoverOnNewKeyOnly ==
    /\ []OldStreamGrouped
    /\ [][Len(added') = Len(added) + 1 => AddStepOldCutover(added'[Len(added')])]_vars

\* A run of three duplicates left the open old-versions block at more than
\* twice block_size.
C21_Witness ==
    /\ pc = "building"
    /\ length(builder.old_builder.block.tmp_keys) = 3
    /\ builder.old_builder.block.size > 2 * builder.block_size
    /\ builder.old_builder.buf = <<>>

\* ------------------------------------------------------------------------
\* SpecHybrid: the hybrid engine under the calls of test_engine, in any
\* order.  The engines are shared handles (test_engine keeps a clone of the
\* memory engine and changes its ranges after the hybrid engine is built),
\* so writes to the disk engine and changes of the range metadata may come
\* between the two statements of a snapshot call.  The builder stays as
\* constructed.  snapshot_call.pc is "idle" before the first call,
\* "disk_snap" when the disk snapshot is taken, "done" when the call has
\* returned and "panicked" when ctx.range.unwrap() failed; request is what
\* the call asked of the region cache engine and seen the metadata of the
\* requested range at that moment.
\* ------------------------------------------------------------------------
InitHybrid ==
    /\ builder = Builder_new(1, [block_size |-> 14])
    /\ pc = "building"
    /\ data_buf = <<>>
    /\ result = NoResult
    /\ call = NoCall
    /\ added = <<>>
    /\ blocks = NoBlocks
    /\ reused = FALSE
    /\ engine = NewHybridEngine
    /\ snapshot_call = NoSnapshotCall

NewRange ==
    \E range \in Ranges :
        /\ ~engine.region_cache_engine[range].cached
        /\ engine' = [engine EXCEPT !.region_cache_engine = new_range(@, range)]
        /\ UNCHANGED snapshot_call
        /\ UNCHANGED builder_vars

SetRangeReadable ==
    \E range \in Ranges, readable \in BOOLEAN :
        /\ engine.region_cache_engine[range].cached
        /\ engine' = [engine EXCEPT !.region_cache_engine =
                          set_range_readable(@, range, readable)]
        /\ UNCHANGED snapshot_call
        /\ UNCHANGED builder_vars

SetSafeTs ==
    \E range \in Ranges, safe_ts \in SafeTs :
        /\ engine.region_cache_engine[range].cached
        /\ engine' = [engine EXCEPT !.region_cache_engine =
                          set_safe_ts(@, range, safe_ts)]
        /\ UNCHANGED snapshot_call
        /\ UNCHANGED builder_vars

DiskWrite ==
    /\ engine.disk_engine.seq < MaxSeq
    /\ engine' = [engine EXCEPT !.disk_engine = disk_engine_write(@)]
    /\ UNCHANGED snapshot_call
    /\ UNCHANGED builder_vars

\* let disk_snap = self.disk_engine.snapshot(ctx.clone());
SnapshotDisk ==
    \E ctx \in Contexts :
        /\ snapshot_call.pc # "disk_snap"
        /\ snapshot_call' =
               [pc |-> "disk_snap", ctx |-> ctx, request |-> None,
                seen |-> RangeMeta_default,
                snapshot |-> HybridEngineSnapshot_new(
                                 snapshot_disk_snap(engine, ctx), None)]
        /\ UNCHANGED engine
        /\ UNCHANGED builder_vars

\* let region_cache_snap = ...; HybridEngineSnapshot::new(...)
SnapshotRegionCache ==
    \E at_safe_ts \in BOOLEAN :
        /\ snapshot_call.pc = "disk_snap"
        /\ IF snapshot_unwrap_panics(snapshot_call.ctx)
           THEN snapshot_call' = [snapshot_call EXCEPT !.pc = "panicked"]
           ELSE \E request \in {snapshot_request(engine, snapshot_call.ctx,
                                    snapshot_call.snapshot.disk_snap)} :
                    snapshot_call' =
                        [snapshot_call EXCEPT
                            !.pc = "done",
                            !.request = request,
                            !.seen = IF request.some
                                     THEN engine.region_cache_engine[request.value.range]
                                     ELSE RangeMeta_default,
                            !.snapshot = HybridEngineSnapshot_new(
                                @.disk_snap,
                                snapshot_region_cache_snap(engine, request, at_safe_ts))]
        /\ UNCHANGED engine
        /\ UNCHANGED builder_vars

NextHybrid ==
    \/ NewRange
    \/ SetRangeReadable
    \/ SetSafeTs
    \/ DiskWrite
    \/ SnapshotDisk
    \/ SnapshotRegionCache

SpecHybrid == InitHybrid /\ [][NextHybrid]_vars

\* C22: a snapshot(None) that has returned asked nothing of the region
\* cache engine and carries no region cache snapshot, whatever the ranges
\* of the cache are; a snapshot(Some(ctx)) that has returned asked the
\* region cache engine for ctx.range at ctx.read_ts with the sequence number
\* of the disk snapshot it took first, which is the disk snapshot it
\* returns; the region cache part of a snapshot is available
\* exactly when the region cache engine answered with a snapshot, which it
\* does only for a cached, readable range and a read_ts not below the
\* safe_ts of the range, and that snapshot is of the requested range,
\* read_ts and sequence number.
SnapshotAnswer == snapshot_call.snapshot.region_cache_snap

SnapshotWithoutContext ==
    /\ snapshot_call.pc = "done"
    /\ snapshot_call.ctx = None
    /\ engine.region_cache_engine["k00_k10"] =
           [cached |-> TRUE, can_read |-> TRUE, safe_ts |-> 10]
    /\ ~region_cache_snapshot_available(snapshot_call.snapshot)

SnapshotBelowSafeTs ==
    /\ snapshot_call.pc = "done"
    /\ snapshot_call.ctx = Some([read_ts |-> 5, range |-> Some("k00_k10")])
    /\ snapshot_call.seen = [cached |-> TRUE, can_read |-> TRUE, safe_ts |-> 10]
    /\ ~region_cache_snapshot_available(snapshot_call.snapshot)

====
